---- MODULE Spec2Model ----
(***************************************************************************)
(* qspreadsheet: DataFrameModel (dataframe_model.py), its row/column index *)
(* _Ndx (_ndx.py), the DataFrameSortFilterProxy (sort_filter_proxy.py) and *)
(* the row operations of DataFrameView (dataframe_view.py).                *)
(*                                                                         *)
(* A pandas Series / DataFrame is a sequence of entries [lbl, val]: the    *)
(* index label and the value (for the DataFrame `_df` the tuple of the     *)
(* row's cells, for `_Ndx._data` the record of the row's flags).  Python   *)
(* positions are 0-based: position p is element p + 1 of the sequence.     *)
(***************************************************************************)
EXTENDS Integers, Sequences, FiniteSets, TLC

\* ---------------------------------------------------------------- bounds
MaxRows == 3        \* data rows the table may grow to
MaxCount == 2       \* rows inserted / removed by one call
NumCols == 2        \* columns of the DataFrame
MaxVal == 2         \* cell values are 0 (null) .. MaxVal

Cols == 0 .. (NumCols - 1)
Null == 0
Vals == 0 .. MaxVal

Min(a, b) == IF a < b THEN a ELSE b

\* ------------------------------------------------------- pandas helpers
\* range(start, start + count) as a sequence of labels
Range(start, count) == [i \in 1 .. count |-> start + i - 1]

\* pd.Series(data=v, index=labels)
NewSeries(labels, v) == [i \in 1 .. Len(labels) |-> [lbl |-> labels[i], val |-> v]]

Labels(obj) == [i \in 1 .. Len(obj) |-> obj[i].lbl]
LabelSet(obj) == {obj[i].lbl : i \in 1 .. Len(obj)}

\* obj.iloc[new_rows.index] = new_rows raises IndexError when a position
\* at_index .. at_index + count - 1 lies beyond the concatenated object
InsertRaises(obj, at_index) == at_index > Len(obj)

\* common.pandas_obj_insert_rows: positional split, labels of the lower part
\* shifted by the number of new rows, concat(above, new_rows, below)
pandas_obj_insert_rows(obj, at_index, new_rows) ==
    LET above == SubSeq(obj, 1, Min(at_index, Len(obj)))
        below == SubSeq(obj, at_index + 1, Len(obj))
        shifted == [i \in 1 .. Len(below) |->
                      [lbl |-> below[i].lbl + Len(new_rows), val |-> below[i].val]]
    IN  above \o new_rows \o shifted

\* obj.index[range(row, row + count)] raises IndexError beyond the end
RemoveRaises(obj, row, count) == row + count > Len(obj)

\* common.pandas_obj_remove_rows: drop the labels found at the positions
\* row .. row + count - 1, then reset_index(drop=True)
pandas_obj_remove_rows(obj, row, count) ==
    LET dropped == {obj[i].lbl : i \in (row + 1) .. (row + count)}
        kept == SelectSeq(obj, LAMBDA e : e.lbl \notin dropped)
    IN  [i \in 1 .. Len(kept) |-> [lbl |-> i - 1, val |-> kept[i].val]]

\* ------------------------------------------------------------------ state
VARIABLES
    df,                \* DataFrameModel._df
    row_data,          \* DataFrameModel.row_ndx._data
    is_mutable,        \* DataFrameModel.row_ndx.is_mutable
    count_virtual,     \* DataFrameModel.row_ndx.count_virtual
    col_disabled,      \* DataFrameModel.col_ndx._data['disabled']
    col_non_nullable,  \* DataFrameModel.col_ndx._data['non_nullable']
    is_dirty,          \* DataFrameModel.is_dirty
    filter_cache,      \* DataFrameSortFilterProxy.filter_cache (ordered dict)
    accepted,          \* DataFrameSortFilterProxy.accepted
    column_index,      \* DataFrameSortFilterProxy._column_index
    ret,               \* the last call: its name, result and emitted signals
    null_written,      \* history: some setData call has written a null
    applied,           \* history: the text of the filter last applied to a column
    proxy_rows,        \* QSortFilterProxyModel: the source rows it shows, in order
    calls,             \* the number of calls made so far, where a run is bounded
    display_values,    \* DataFrameSortFilterProxy._display_values
    showing_all_display_values,  \* ..._showing_all_display_values
    filter_values,     \* DataFrameSortFilterProxy._filter_values
    display_values_gen,  \* ..._display_values_gen: the items not yet taken
    filter_widget,     \* FilterWidgetAction: list items, (Select All), button
    populate_task,     \* the worker running populate_list: position and locals
    refill_task        \* the worker running refill_list: position and locals

vars == <<df, row_data, is_mutable, count_virtual, col_disabled,
          col_non_nullable, is_dirty, filter_cache, accepted, column_index, ret,
          null_written, applied, proxy_rows, calls, display_values,
          showing_all_display_values, filter_values, display_values_gen,
          filter_widget, populate_task, refill_task>>

model_vars == <<df, row_data, is_mutable, count_virtual, col_disabled,
                col_non_nullable, is_dirty, null_written>>
list_vars == <<filter_values, display_values_gen, filter_widget, populate_task,
               refill_task>>
popup_vars == <<display_values, showing_all_display_values, list_vars>>
proxy_vars == <<filter_cache, accepted, column_index, applied, proxy_rows, popup_vars>>

\* ------------------------------------------------------------------ _Ndx
\* _Ndx._make_index_data_for: a row that is not in progress
make_index_data_for(index) ==
    NewSeries(index, [in_progress |-> FALSE,
                      disabled_in_progress_count |-> 0,
                      non_nullable_in_progress_count |-> 0])

\* _Ndx.VIRTUAL_COUNT
VIRTUAL_COUNT == 1

\* _Ndx.in_progress_mask.iloc[row]
in_progress_at(data, row) == data[row + 1].val.in_progress

\* _Ndx.count_in_progress: in_progress_mask.sum()
count_in_progress == Cardinality({i \in 1 .. Len(row_data) : row_data[i].val.in_progress})

\* _Ndx.count_committed
count_committed == Len(row_data) - count_in_progress - count_virtual

\* _Ndx.count (the rowCount of the model)
count == Len(row_data) + count_virtual

\* is_virtual with the comparison off by one: the last row is not virtual
is_virtual_beyond_last(index) == count_virtual # 0 /\ index > Len(row_data)

\* _Ndx.is_virtual
is_virtual(index) == count_virtual # 0 /\ index >= Len(row_data)

\* _Ndx.virtual_enabled: the property evaluates the comparison and returns
\* nothing, so the caller always gets None
virtual_enabled == "None"

\* a Python bool as the caller compares it with the property's result
PyBool(b) == IF b THEN "True" ELSE "False"

\* _Ndx._update_in_progress for the entries whose label is in index
update_in_progress(data, index) ==
    [i \in 1 .. Len(data) |->
        IF data[i].lbl \in index
        THEN [data[i] EXCEPT !.val.in_progress =
                 data[i].val.disabled_in_progress_count
                 + data[i].val.non_nullable_in_progress_count > 0]
        ELSE data[i]]

\* _Ndx.set_disabled_in_progress
set_disabled_in_progress(data, index, n) ==
    update_in_progress(
        [i \in 1 .. Len(data) |->
            IF data[i].lbl \in index
            THEN [data[i] EXCEPT !.val.disabled_in_progress_count = n]
            ELSE data[i]], index)

\* _Ndx.set_non_nullable_in_progress
set_non_nullable_in_progress(data, index, n) ==
    update_in_progress(
        [i \in 1 .. Len(data) |->
            IF data[i].lbl \in index
            THEN [data[i] EXCEPT !.val.non_nullable_in_progress_count = n]
            ELSE data[i]], index)

\* _Ndx.reduce_disabled_in_progress
reduce_disabled_in_progress(data, index) ==
    update_in_progress(
        [i \in 1 .. Len(data) |->
            IF data[i].lbl \in index
            THEN [data[i] EXCEPT !.val.disabled_in_progress_count = @ - 1]
            ELSE data[i]], index)

\* _Ndx.reduce_non_nullable_in_progress
reduce_non_nullable_in_progress(data, index) ==
    update_in_progress(
        [i \in 1 .. Len(data) |->
            IF data[i].lbl \in index
            THEN [data[i] EXCEPT !.val.non_nullable_in_progress_count = @ - 1]
            ELSE data[i]], index)

\* _Ndx.insert
Ndx_insert(data, at_index, n) ==
    pandas_obj_insert_rows(data, at_index, make_index_data_for(Range(at_index, n)))

\* _Ndx.remove
Ndx_remove(data, at_index, n) == pandas_obj_remove_rows(data, at_index, n)

\* number of True entries of a column mask (mask.sum(), mask.any())
MaskSum(mask) == Cardinality({c \in Cols : mask[c]})

\* -------------------------------------------------------- DataFrameModel
\* DataFrameModel.null_rows: every delegate's null value, one row per label
null_rows(start_index, n) ==
    NewSeries(Range(start_index, n), [c \in 1 .. NumCols |-> Null])

\* on_rowsInserted without the step for the non-nullable columns
on_rowsInserted_no_non_nullable(data, first, last) ==
    LET rows_inserted == first .. last
        d0 == Ndx_insert(data, first, last - first + 1)
    IN  IF MaskSum(col_disabled) > 0
        THEN set_disabled_in_progress(d0, rows_inserted, MaskSum(col_disabled))
        ELSE d0

\* DataFrameModel.on_rowsInserted, on the row index
on_rowsInserted(data, first, last) ==
    LET rows_inserted == first .. last
        d0 == Ndx_insert(data, first, last - first + 1)
        d1 == IF MaskSum(col_disabled) > 0
              THEN set_disabled_in_progress(d0, rows_inserted, MaskSum(col_disabled))
              ELSE d0
        d2 == IF MaskSum(col_non_nullable) > 0
              THEN set_non_nullable_in_progress(d1, rows_inserted,
                                                MaskSum(col_non_nullable))
              ELSE d1
    IN  d2

\* DataFrameModel.on_rowsRemoved, on the row index
on_rowsRemoved(data, first, last) == Ndx_remove(data, first, last - first + 1)

\* DataFrameModel.df: the rows whose label is not in progress in row_ndx
\* (all columns: no column is ever in progress)
model_df ==
    LET in_progress_labels ==
            {row_data[i].lbl : i \in {j \in 1 .. Len(row_data) : row_data[j].val.in_progress}}
    IN  SelectSeq(df, LAMBDA e : e.lbl \notin in_progress_labels)

\* self._df.iloc[row, column] = value
SetCell(frame, row, col, value) ==
    [frame EXCEPT ![row + 1].val[col + 1] = value]

\* DataFrameModel.setData: the update of the rows in progress
setData_in_progress(data, frame, row, col) ==
    IF in_progress_at(data, row)
    THEN LET d1 == IF col_disabled[col]
                   THEN reduce_disabled_in_progress(data, {row})
                   ELSE data
             d2 == IF col_non_nullable[col] /\ frame[row + 1].val[col + 1] # Null
                   THEN reduce_non_nullable_in_progress(d1, {row})
                   ELSE d1
         IN  d2
    ELSE data

\* ---------------------------------------------- DataFrameSortFilterProxy
DEFAULT_FILTER_INDEX == -1

\* DataFrameSortFilterProxy.alltrues: one True per row of model.df
alltrues == NewSeries(Labels(model_df), TRUE)

\* DataFrameSortFilterProxy.last_filter_index: the key added last
last_filter_index == filter_cache[Len(filter_cache)].col

\* DataFrameSortFilterProxy.filter_mask
filter_mask == filter_cache[Len(filter_cache)].mask

\* DataFrameSortFilterProxy.is_column_filtered
is_column_filtered(col_ndx) ==
    \E i \in 1 .. Len(filter_cache) : filter_cache[i].col = col_ndx

\* DataFrameSortFilterProxy.is_data_filtered
is_data_filtered == Len(filter_cache) > 1

\* the first cached mask on which the row edit raises (Len + 1: none does);
\* the exception ends the slot, the masks before it are already replaced
FirstRaising(raises) ==
    IF \E i \in 1 .. Len(raises) : raises[i]
    THEN CHOOSE i \in 1 .. Len(raises) :
            /\ raises[i]
            /\ \A j \in 1 .. (i - 1) : ~raises[j]
    ELSE Len(raises) + 1

\* DataFrameSortFilterProxy.on_rows_inserted: the masks of filter_cache
on_rows_inserted_cache(cache, first, last) ==
    LET new_rows == NewSeries(Range(first, last - first + 1), TRUE)
        k == FirstRaising([i \in 1 .. Len(cache) |-> InsertRaises(cache[i].mask, first)])
    IN  [i \in 1 .. Len(cache) |->
            IF i < k
            THEN [cache[i] EXCEPT !.mask = pandas_obj_insert_rows(@, first, new_rows)]
            ELSE cache[i]]

\* DataFrameSortFilterProxy.on_rows_inserted: self.accepted, which is
\* reached only when no cached mask raised
on_rows_inserted_accepted(cache, acc, first, last) ==
    LET new_rows == NewSeries(Range(first, last - first + 1), TRUE)
        k == FirstRaising([i \in 1 .. Len(cache) |-> InsertRaises(cache[i].mask, first)])
    IN  IF k <= Len(cache) \/ InsertRaises(acc, first)
        THEN acc
        ELSE pandas_obj_insert_rows(acc, first, new_rows)

\* DataFrameSortFilterProxy.on_rows_removed: the masks of filter_cache
on_rows_removed_cache(cache, first, last) ==
    LET n == last - first + 1
        k == FirstRaising([i \in 1 .. Len(cache) |-> RemoveRaises(cache[i].mask, first, n)])
    IN  [i \in 1 .. Len(cache) |->
            IF i < k
            THEN [cache[i] EXCEPT !.mask = pandas_obj_remove_rows(@, first, n)]
            ELSE cache[i]]

\* DataFrameSortFilterProxy.on_rows_removed: self.accepted
on_rows_removed_accepted(cache, acc, first, last) ==
    LET n == last - first + 1
        k == FirstRaising([i \in 1 .. Len(cache) |-> RemoveRaises(cache[i].mask, first, n)])
    IN  IF k <= Len(cache) \/ RemoveRaises(acc, first, n)
        THEN acc
        ELSE pandas_obj_remove_rows(acc, first, n)

\* ------------------------------------------------------- display strings
\* A string is a sequence of one-character strings.  str(value) of the cell
\* values 1 .. MaxVal
ValueText == <<  <<"a">>, <<"b">>, <<"A">>, <<"B">>, <<"a", "b">> >>

\* the code point of a character (ord)
Ord(ch) ==
    CASE ch = "." -> 46 [] ch = "A" -> 65 [] ch = "B" -> 66 [] ch = "N" -> 78
      [] ch = "a" -> 97 [] ch = "b" -> 98 [] ch = "n" -> 110

\* str.lower() of one character
LowerChar(ch) ==
    CASE ch = "A" -> "a" [] ch = "B" -> "b" [] ch = "N" -> "n" [] OTHER -> ch

\* str.lower()
Lower(str) == [i \in 1 .. Len(str) |-> LowerChar(str[i])]

\* ColumnDelegate.display_data
display_data(value) ==
    IF value = Null THEN <<".", "N", "A">> ELSE ValueText[value]

\* Series.str.contains(pat): a regular-expression search, in which "." matches
\* any character and the other characters of the texts used here themselves
Contains(str, pat) ==
    \E k \in 0 .. (Len(str) - Len(pat)) :
        \A i \in 1 .. Len(pat) : pat[i] = "." \/ str[k + i] = pat[i]

\* Python's < on two strings
RECURSIVE StrLess(_, _)
StrLess(x, y) ==
    IF Len(y) = 0 THEN FALSE
    ELSE IF Len(x) = 0 THEN TRUE
    ELSE IF Ord(x[1]) # Ord(y[1]) THEN Ord(x[1]) < Ord(y[1])
    ELSE StrLess(Tail(x), Tail(y))

\* the order sort_values puts two cell values in: nulls last
ValueLess(v, w) ==
    IF v = Null THEN FALSE
    ELSE IF w = Null THEN TRUE
    ELSE StrLess(ValueText[v], ValueText[w])

\* Series.sort_values(): ascending, nulls last, equal values in their order
RECURSIVE sort_values(_)
sort_values(column) ==
    IF Len(column) <= 1 THEN column
    ELSE LET rest == sort_values(SubSeq(column, 1, Len(column) - 1))
             e == column[Len(column)]
             \* e goes after every entry that is not greater than it
             n == Cardinality({i \in 1 .. Len(rest) : ~ValueLess(e.val, rest[i].val)})
         IN  SubSeq(rest, 1, n) \o <<e>> \o SubSeq(rest, n + 1, Len(rest))

\* pd.Series({ndx: f(value) for ndx, value in column.items()}): a dict keeps
\* one entry per key, at the place of its first occurrence
DictSeries(column) ==
    SelectSeq([i \in 1 .. Len(column) |->
                  [lbl |-> column[i].lbl, val |-> column[i].val,
                   first |-> \A j \in 1 .. (i - 1) : column[j].lbl # column[i].lbl]],
              LAMBDA e : e.first)

\* --------------------------------------------- DataFrameSortFilterProxy
\* model.df.iloc[:, column_index]; -1 is the last column
df_column(col_ndx) ==
    LET c == IF col_ndx < 0 THEN NumCols + col_ndx ELSE col_ndx
    IN  [i \in 1 .. Len(model_df) |->
            [lbl |-> model_df[i].lbl, val |-> model_df[i].val[c + 1]]]

\* filter_mask.loc[filter_mask]: the True entries
TrueEntries(mask) == SelectSeq(mask, LAMBDA e : e.val)

\* get_model_values raises KeyError when a label of the rows accepted by the
\* last filter is not a label of model.df
get_model_values_raises(col_ndx) ==
    /\ col_ndx # last_filter_index
    /\ ~(LabelSet(TrueEntries(filter_mask)) \subseteq LabelSet(model_df))

\* DataFrameSortFilterProxy.get_model_values: the sorted column
get_model_values(col_ndx) ==
    LET column == df_column(col_ndx)
        labels == Labels(TrueEntries(filter_mask))
        picked == IF col_ndx # last_filter_index
                  THEN [i \in 1 .. Len(labels) |->
                          [lbl |-> labels[i],
                           val |-> (CHOOSE e \in {column[j] : j \in 1 .. Len(column)} :
                                       e.lbl = labels[i]).val]]
                  ELSE column
    IN  sort_values(picked)

\* the display values of get_model_values, one per row label
display_values_of(col_ndx) ==
    LET values == get_model_values(col_ndx)
        shown == [i \in 1 .. Len(values) |->
                    [lbl |-> values[i].lbl, val |-> display_data(values[i].val)]]
        d == DictSeries(shown)
    IN  [i \in 1 .. Len(d) |-> [lbl |-> d[i].lbl, val |-> d[i].val]]

\* string_filter: the mask of the display values that contain the text
string_mask(shown, text) ==
    [i \in 1 .. Len(shown) |->
        [lbl |-> shown[i].lbl,
         val |-> IF Len(text) > 0
                 THEN Contains(Lower(shown[i].val), Lower(text))
                 ELSE TRUE]]

\* _update_accepted raises KeyError when the mask has a label accepted lacks
update_accepted_raises(acc, mask) == ~(LabelSet(mask) \subseteq LabelSet(acc))

\* DataFrameSortFilterProxy._update_accepted: all False, then the mask's
\* values at the mask's labels (the last value given for a label stays)
update_accepted(acc, mask) ==
    [i \in 1 .. Len(acc) |->
        [lbl |-> acc[i].lbl,
         val |-> IF update_accepted_raises(acc, mask) \/ acc[i].lbl \notin LabelSet(mask)
                 THEN FALSE
                 ELSE LET at == {j \in 1 .. Len(mask) : mask[j].lbl = acc[i].lbl}
                          last == CHOOSE j \in at : \A k \in at : k <= j
                      IN  mask[last].val]]

\* filter_cache.pop(column_index)
cache_pop(cache, col_ndx) == SelectSeq(cache, LAMBDA e : e.col # col_ndx)

\* DataFrameSortFilterProxy.add_filter_mask: the new filter_cache
add_filter_mask(cache, col_ndx, mask) ==
    Append(cache_pop(cache, col_ndx), [col |-> col_ndx, mask |-> mask])

\* ------------------------------------------------ QSortFilterProxyModel
\* DataFrameSortFilterProxy.filterAcceptsRow
filterAcceptsRow(acc, source_row) ==
    IF source_row < Len(acc) THEN acc[source_row + 1].val ELSE TRUE

\* the elements of a set of row numbers in ascending order
RECURSIVE Sorted(_)
Sorted(S) ==
    IF S = {} THEN <<>>
    ELSE LET m == CHOOSE x \in S : \A y \in S : x <= y
         IN  <<m>> \o Sorted(S \ {m})

Elems(seq) == {seq[i] : i \in 1 .. Len(seq)}

\* invalidateFilter() and a model reset: every source row is filtered anew
ProxyInvalidated(acc, row_count) ==
    Sorted({r \in 0 .. (row_count - 1) : filterAcceptsRow(acc, r)})

\* rowsInserted(first, last) reaching the proxy after the Python slots: the
\* rows below move down and the new rows are filtered
ProxyRowsInserted(rows, acc, first, n) ==
    Sorted({IF r < first THEN r ELSE r + n : r \in Elems(rows)}
           \cup {r \in first .. (first + n - 1) : filterAcceptsRow(acc, r)})

\* rowsRemoved(first, last): the removed rows leave, the rows below move up
ProxyRowsRemoved(rows, first, n) ==
    Sorted({IF r < first THEN r ELSE r - n :
                r \in {x \in Elems(rows) : x < first \/ x >= first + n}})

\* dataChanged(index, index) of a valid index: the row is filtered anew
ProxyDataChanged(rows, acc, row) ==
    Sorted((Elems(rows) \ {row})
           \cup (IF filterAcceptsRow(acc, row) THEN {row} ELSE {}))

\* ------------------------------------------------- DataFrameModel actions
Call(op, result, emitted) == [op |-> op, result |-> result, emitted |-> emitted]

\* insertRows without the test of row_ndx.is_mutable
insertRows_unguarded(row, n) ==
    /\ df' = pandas_obj_insert_rows(df, row, null_rows(row, n))
    /\ row_data' = on_rowsInserted(row_data, row, row + n - 1)
    /\ filter_cache' = on_rows_inserted_cache(filter_cache, row, row + n - 1)
    /\ accepted' = on_rows_inserted_accepted(filter_cache, accepted, row, row + n - 1)
    /\ proxy_rows' = ProxyRowsInserted(proxy_rows, accepted', row, n)
    /\ is_dirty' = TRUE
    /\ ret' = Call("insertRows", "True", {"rowsInserted", "dataChanged"})
    /\ UNCHANGED <<is_mutable, count_virtual, col_disabled, col_non_nullable,
                   column_index, null_written, applied, popup_vars>>

\* DataFrameModel.insertRows, with the slots connected to rowsInserted
\* (DataFrameModel.on_rowsInserted, then the proxy's on_rows_inserted) and to
\* dataChanged (DataFrameModel.on_dataChanged)
insertRows(row, n) ==
    IF is_mutable = FALSE
    THEN /\ ret' = Call("insertRows", "False", {})
         /\ UNCHANGED <<model_vars, proxy_vars>>
    ELSE /\ df' = pandas_obj_insert_rows(df, row, null_rows(row, n))
         /\ row_data' = on_rowsInserted(row_data, row, row + n - 1)
         /\ filter_cache' = on_rows_inserted_cache(filter_cache, row, row + n - 1)
         /\ accepted' = on_rows_inserted_accepted(filter_cache, accepted, row, row + n - 1)
         /\ proxy_rows' = ProxyRowsInserted(proxy_rows, accepted', row, n)
         /\ is_dirty' = TRUE
         /\ ret' = Call("insertRows", "True", {"rowsInserted", "dataChanged"})
         /\ UNCHANGED <<is_mutable, count_virtual, col_disabled, col_non_nullable,
                        column_index, null_written, applied, popup_vars>>

\* DataFrameModel.removeRows, with the slots connected to rowsRemoved
\* (DataFrameModel.on_rowsRemoved, then the proxy's on_rows_removed) and to
\* dataChanged
removeRows(row, n) ==
    IF is_mutable = FALSE
    THEN /\ ret' = Call("removeRows", "False", {})
         /\ UNCHANGED <<model_vars, proxy_vars>>
    ELSE /\ df' = pandas_obj_remove_rows(df, row, n)
         /\ row_data' = on_rowsRemoved(row_data, row, row + n - 1)
         /\ filter_cache' = on_rows_removed_cache(filter_cache, row, row + n - 1)
         /\ accepted' = on_rows_removed_accepted(filter_cache, accepted, row, row + n - 1)
         /\ proxy_rows' = ProxyRowsRemoved(proxy_rows, row, n)
         /\ is_dirty' = TRUE
         /\ ret' = Call("removeRows", "True", {"rowsRemoved", "dataChanged"})
         /\ UNCHANGED <<is_mutable, count_virtual, col_disabled, col_non_nullable,
                        column_index, null_written, applied, popup_vars>>

\* DataFrameModel.setData on a valid index.  Typing in the virtual row first
\* calls insertRow(row); when that is refused the cell assignment is out of
\* bounds and raises IndexError before anything changed.
setData(row, col, value) ==
    LET inserted == is_virtual(row) /\ is_mutable
        df1 == IF inserted THEN pandas_obj_insert_rows(df, row, null_rows(row, 1)) ELSE df
        rd1 == IF inserted THEN on_rowsInserted(row_data, row, row) ELSE row_data
    IN  IF row >= Len(df1)
        THEN /\ ret' = Call("setData", "raised", {})
             /\ UNCHANGED <<model_vars, proxy_vars>>
        ELSE /\ df' = SetCell(df1, row, col, value)
             /\ row_data' = setData_in_progress(rd1, df', row, col)
             /\ filter_cache' = IF inserted
                                THEN on_rows_inserted_cache(filter_cache, row, row)
                                ELSE filter_cache
             /\ accepted' = IF inserted
                            THEN on_rows_inserted_accepted(filter_cache, accepted, row, row)
                            ELSE accepted
             /\ proxy_rows' = ProxyDataChanged(
                                  IF inserted
                                  THEN ProxyRowsInserted(proxy_rows, accepted', row, 1)
                                  ELSE proxy_rows,
                                  accepted', row)
             /\ is_dirty' = TRUE
             /\ ret' = Call("setData", "True",
                            IF inserted THEN {"rowsInserted", "dataChanged"}
                                        ELSE {"dataChanged"})
             /\ null_written' = (null_written \/ value = Null)
             /\ UNCHANGED <<is_mutable, count_virtual, col_disabled, col_non_nullable,
                            column_index, applied, popup_vars>>

\* flags without the test of the column's disabled mask
flags_column_ignored(row, col) ==
    IF is_virtual(row)
    THEN TRUE
    ELSE IF is_mutable /\ in_progress_at(row_data, row)
    THEN TRUE
    ELSE TRUE

\* DataFrameModel.flags of a valid index: Qt.ItemIsEditable is set
flags(row, col) ==
    IF is_virtual(row)
    THEN TRUE
    ELSE IF is_mutable /\ in_progress_at(row_data, row)
    THEN TRUE
    ELSE IF ~col_disabled[col]
    THEN TRUE
    ELSE FALSE

\* the order DataFrame.sort_values puts two cell values in: nulls last in
\* both directions
Before(v, w, ascending) ==
    IF ascending THEN ValueLess(v, w)
    ELSE v # Null /\ (w = Null \/ ValueLess(w, v))

\* real_rows.sort_values(by=column_name, ascending=ascending): equal values
\* stay in their order
RECURSIVE frame_sort_values(_, _, _)
frame_sort_values(frame, col, ascending) ==
    IF Len(frame) <= 1 THEN frame
    ELSE LET rest == frame_sort_values(SubSeq(frame, 1, Len(frame) - 1), col, ascending)
             e == frame[Len(frame)]
             n == Cardinality({i \in 1 .. Len(rest) :
                                  ~Before(e.val[col + 1], rest[i].val[col + 1], ascending)})
         IN  SubSeq(rest, 1, n) \o <<e>> \o SubSeq(rest, n + 1, Len(rest))

\* DataFrameSortFilterProxy.sort -> DataFrameModel.sort: every row of _df is
\* a real row (the virtual row is not stored), and ignore_index is given the
\* function os.truncate, which is true: the labels are 0 .. n-1 again.
\* layoutChanged makes the proxy filter every source row anew.
sort(column, ascending) ==
    /\ df' = LET sorted == frame_sort_values(df, column, ascending)
             IN  [i \in 1 .. Len(sorted) |-> [lbl |-> i - 1, val |-> sorted[i].val]]
    /\ proxy_rows' = ProxyInvalidated(accepted, count)
    /\ ret' = Call("sort", "None", {"layoutAboutToBeChanged", "layoutChanged"})
    /\ UNCHANGED <<row_data, is_mutable, count_virtual, col_disabled, col_non_nullable,
                   is_dirty, null_written, filter_cache, accepted, column_index,
                   applied, popup_vars>>

\* DataFrameModel.enable_mutable_rows
enable_mutable_rows(enable) ==
    IF is_mutable = enable
    THEN is_mutable
    ELSE enable

\* DataFrameModel.enable_virtual_row: the new count_virtual
enable_virtual_row(enable) ==
    IF virtual_enabled = PyBool(enable)
    THEN count_virtual
    ELSE (IF enable THEN VIRTUAL_COUNT ELSE 0)

\* DataFrameView.enable_mutable_rows -> DataFrameModel.enable_mutable_rows
EnableMutableRows(enable) ==
    /\ is_mutable' = enable_mutable_rows(enable)
    /\ ret' = Call("enable_mutable_rows", "None",
                   IF is_mutable = enable THEN {} ELSE {"mutable_rows_enabled"})
    /\ UNCHANGED <<df, row_data, count_virtual, col_disabled, col_non_nullable,
                   is_dirty, null_written, proxy_vars>>

\* DataFrameView.enable_virtual_row -> DataFrameModel.enable_virtual_row
EnableVirtualRow(enable) ==
    /\ count_virtual' = enable_virtual_row(enable)
    /\ ret' = Call("enable_virtual_row", "None",
                   IF virtual_enabled = PyBool(enable) THEN {}
                   ELSE {"modelReset", "virtual_rows_enabled"})
    /\ proxy_rows' = IF virtual_enabled = PyBool(enable)
                     THEN proxy_rows
                     ELSE ProxyInvalidated(accepted, Len(row_data) + count_virtual')
    /\ UNCHANGED <<df, row_data, is_mutable, col_disabled, col_non_nullable,
                   is_dirty, null_written, filter_cache, accepted, column_index,
                   applied, popup_vars>>

\* DataFrameView.set_read_only -> DataFrameModel.set_read_only
set_read_only(readonly) ==
    /\ is_mutable' = enable_mutable_rows(readonly)
    /\ count_virtual' = enable_virtual_row(readonly)
    /\ proxy_rows' = IF virtual_enabled = PyBool(readonly)
                     THEN proxy_rows
                     ELSE ProxyInvalidated(accepted, Len(row_data) + count_virtual')
    /\ ret' = Call("set_read_only", "None", {})
    /\ UNCHANGED <<df, row_data, col_disabled, col_non_nullable, is_dirty, null_written,
                   filter_cache, accepted, column_index, applied, popup_vars>>

\* DataFrameView.set_columns_edit_state for one column
set_columns_edit_state(col, edit_state) ==
    /\ col_disabled' = [col_disabled EXCEPT ![col] = ~edit_state]
    /\ ret' = Call("set_columns_edit_state", "None", {})
    /\ UNCHANGED <<df, row_data, is_mutable, count_virtual, col_non_nullable,
                   is_dirty, null_written, proxy_vars>>

\* --------------------------------------- DataFrameSortFilterProxy actions
\* string_filter: pd.Series({}) of no values has dtype float64, which has no
\* .str accessor (AttributeError)
str_raises(col_ndx, text) ==
    /\ Len(text) > 0
    /\ ~get_model_values_raises(col_ndx)
    /\ Len(display_values_of(col_ndx)) = 0

\* DataFrameView.filter_by_value: set_filter_key_column(col_ndx), then
\* DataFrameSortFilterProxy.string_filter(text)
filter_by_value(col_ndx, text) ==
    /\ column_index' = col_ndx
    /\ IF get_model_values_raises(col_ndx)
       THEN /\ ret' = Call("string_filter", "raised", {})
            /\ UNCHANGED <<filter_cache, accepted, applied, proxy_rows,
                           display_values, showing_all_display_values>>
       ELSE /\ display_values' = display_values_of(col_ndx)
            /\ showing_all_display_values' = TRUE
            /\ IF str_raises(col_ndx, text)
               THEN /\ ret' = Call("string_filter", "raised", {})
                    /\ UNCHANGED <<filter_cache, accepted, applied, proxy_rows>>
               ELSE LET mask == string_mask(display_values_of(col_ndx), text)
                    IN  /\ filter_cache' = add_filter_mask(filter_cache, col_ndx, mask)
                        /\ accepted' = update_accepted(accepted, mask)
                        /\ applied' = IF Len(applied) = 0 THEN applied
                                      ELSE [applied EXCEPT ![col_ndx + 1] = text]
                        /\ proxy_rows' = IF update_accepted_raises(accepted, mask)
                                         THEN proxy_rows
                                         ELSE ProxyInvalidated(accepted', count)
                        /\ ret' = IF update_accepted_raises(accepted, mask)
                                  THEN Call("string_filter", "raised", {})
                                  ELSE Call("string_filter", "None", {"column_filtered"})
    /\ UNCHANGED <<model_vars, list_vars>>

\* DataFrameView.clear_column_filter ->
\* DataFrameSortFilterProxy.clear_filter_from_column -> remove_filter_mask
clear_filter_from_column(col_ndx) ==
    LET cache == cache_pop(filter_cache, col_ndx)
        mask == cache[Len(cache)].mask
    IN  /\ filter_cache' = cache
        /\ accepted' = update_accepted(accepted, mask)
        /\ IF update_accepted_raises(accepted, mask)
           THEN /\ ret' = Call("clear_filter_from_column", "raised", {})
                /\ UNCHANGED <<column_index, proxy_rows>>
           ELSE /\ ret' = Call("clear_filter_from_column", "None", {"column_unfiltered"})
                /\ column_index' = IF column_index = col_ndx
                                   THEN cache[Len(cache)].col
                                   ELSE column_index
                /\ proxy_rows' = ProxyInvalidated(accepted', count)
        /\ UNCHANGED <<model_vars, applied, popup_vars>>

\* DataFrameView.clear_all_filters -> DataFrameSortFilterProxy.clear_filter_cache
clear_filter_cache ==
    /\ IF ~is_data_filtered
       THEN /\ ret' = Call("clear_filter_cache", "None", {})
            /\ UNCHANGED proxy_vars
       ELSE /\ filter_cache' = <<[col |-> DEFAULT_FILTER_INDEX, mask |-> alltrues]>>
            /\ accepted' = alltrues
            /\ column_index' = DEFAULT_FILTER_INDEX
            /\ proxy_rows' = ProxyInvalidated(accepted', count)
            /\ ret' = Call("clear_filter_cache", "None", {"column_unfiltered"})
            /\ UNCHANGED <<applied, popup_vars>>
    /\ UNCHANGED model_vars

\* ------------------------------------------------ DataFrameView.remove_rows
\* the state a chain of removals works on
Removal ==
    [df |-> df, row_data |-> row_data, filter_cache |-> filter_cache,
     accepted |-> accepted, proxy_rows |-> proxy_rows,
     ok |-> TRUE, raised |-> FALSE, removed |-> FALSE]

\* DataFrameModel.removeRows called by the proxy while rows are mutable: the
\* IndexError of pandas_obj_remove_rows ends the call before endRemoveRows,
\* and the caller in Qt gets False
model_removeRows(s, row, n) ==
    IF RemoveRaises(s.df, row, n)
    THEN [s EXCEPT !.ok = FALSE, !.raised = TRUE]
    ELSE [s EXCEPT !.df = pandas_obj_remove_rows(s.df, row, n),
                   !.row_data = on_rowsRemoved(s.row_data, row, row + n - 1),
                   !.filter_cache = on_rows_removed_cache(s.filter_cache, row, row + n - 1),
                   !.accepted = on_rows_removed_accepted(s.filter_cache, s.accepted,
                                                         row, row + n - 1),
                   !.proxy_rows = ProxyRowsRemoved(s.proxy_rows, row, n),
                   !.removed = TRUE]

\* QSortFilterProxyModel.removeRows, the loop over the intervals of source
\* rows, the highest first; it stops at the first removal that fails
RECURSIVE RemoveIntervals(_, _)
RemoveIntervals(s, rows) ==
    IF rows = {} \/ ~s.ok
    THEN s
    ELSE LET source_end == CHOOSE x \in rows : \A y \in rows : y <= x
             source_start == CHOOSE x \in rows :
                                 /\ \A y \in x .. source_end : y \in rows
                                 /\ (x - 1) \notin rows
         IN  RemoveIntervals(
                 model_removeRows(s, source_start, source_end - source_start + 1),
                 rows \ (source_start .. source_end))

\* QSortFilterProxyModel.removeRows(row, n) of an unsorted proxy
proxy_removeRows(s, row, n) ==
    IF row + n > Len(s.proxy_rows)
    THEN [s EXCEPT !.ok = FALSE]
    ELSE IF n = 1 \/ Len(s.proxy_rows) = Len(s.df) + count_virtual
         THEN model_removeRows(s, s.proxy_rows[row + 1], n)
         ELSE RemoveIntervals([s EXCEPT !.ok = TRUE],
                              {s.proxy_rows[i] : i \in (row + 1) .. (row + n)})

\* for row in reversed(rows): self.model().removeRows(row, 1, QModelIndex())
RECURSIVE RemoveEach(_, _, _)
RemoveEach(s, rows, i) ==
    IF i = 0 THEN s
    ELSE RemoveEach(proxy_removeRows(s, rows[i], 1), rows, i - 1)

\* _rows_from_index_list
consecutive(rows) == rows[1] + Len(rows) - 1 = rows[Len(rows)]

\* DataFrameView.remove_rows with the rows of the proxy that are selected
remove_rows(selection) ==
    LET selected == Sorted(selection)
        rows == SelectSeq(selected, LAMBDA row : row < count)
        iloc_raises == \E i \in 1 .. Len(rows) : rows[i] >= Len(row_data)
        num_to_delete ==
            Len(rows) - Cardinality({i \in 1 .. Len(rows) :
                                        in_progress_at(row_data, rows[i])})
        s == IF consecutive(selected)
             THEN proxy_removeRows(Removal, rows[1], Len(rows))
             ELSE RemoveEach(Removal, rows, Len(rows))
    IN  IF is_mutable = FALSE
        THEN /\ ret' = Call("remove_rows", "None", {})
             /\ UNCHANGED <<model_vars, proxy_vars>>
        ELSE IF Len(rows) = 0
        THEN /\ ret' = Call("remove_rows", "False", {})
             /\ UNCHANGED <<model_vars, proxy_vars>>
        ELSE IF iloc_raises
        THEN /\ ret' = Call("remove_rows", "raised", {})
             /\ UNCHANGED <<model_vars, proxy_vars>>
        ELSE IF count_committed - num_to_delete <= 0
        THEN /\ ret' = Call("remove_rows", "error", {})
             /\ UNCHANGED <<model_vars, proxy_vars>>
        ELSE /\ df' = s.df
             /\ row_data' = s.row_data
             /\ filter_cache' = s.filter_cache
             /\ accepted' = s.accepted
             /\ proxy_rows' = s.proxy_rows
             /\ is_dirty' = (is_dirty \/ s.removed)
             /\ ret' = Call("remove_rows",
                            IF s.raised THEN "raised in removeRows" ELSE "None",
                            IF s.removed THEN {"rowsRemoved", "dataChanged"} ELSE {})
             /\ UNCHANGED <<is_mutable, count_virtual, col_disabled, col_non_nullable,
                            column_index, null_written, applied, popup_vars>>

\* ------------------------------------------------------- the list filter
\* the values of the model scaled down: INITIAL_FILTER_LIMIT and
\* FILTER_VALUES_STEP are both 5000 in sort_filter_proxy.py
INITIAL_FILTER_LIMIT == 2
FILTER_VALUES_STEP == 2

\* FilterWidgetAction.__init__: no list items, no (Select All) item, the
\* button 'Not all items showing' hidden
NoWidget == [items |-> <<>>, select_all |-> "none", show_all_btn |-> FALSE,
             num_checked |-> 0]

\* no worker has been started
NoPopulate == [pc |-> "idle", model_values |-> <<>>, next_step |-> 0, remaining |-> 0,
               mask_all |-> FALSE]

NoRefill == [pc |-> "idle", taken |-> <<>>]

\* what the generator _display_values_gen yields for the given model values
Displayed(values) ==
    [i \in 1 .. Len(values) |->
        [lbl |-> values[i].lbl, val |-> display_data(values[i].val)]]

\* pd.Series({ndx : value for ndx, value in ...}) of the given items
TakenSeries(values) ==
    LET d == DictSeries(Displayed(values))
    IN  [i \in 1 .. Len(d) |-> [lbl |-> d[i].lbl, val |-> d[i].val]]

\* series.loc[series.str.lower().drop_duplicates().index]: the entries whose
\* lower-case value occurs for the first time (all entries of a label that
\* is kept, when a label occurs twice)
drop_duplicates_lower(series) ==
    LET kept == {series[i].lbl : i \in {j \in 1 .. Len(series) :
                    \A k \in 1 .. (j - 1) : Lower(series[k].val) # Lower(series[j].val)}}
    IN  SelectSeq(series, LAMBDA e : e.lbl \in kept)

\* .str of a Series made of no values (dtype float64) raises AttributeError
NoStr(series) == Len(series) = 0

\* checked_mask.loc[row_ndx] is one value when the label occurs exactly once
LocRaises(mask, lbl) == Cardinality({i \in 1 .. Len(mask) : mask[i].lbl = lbl}) # 1

\* add_list_items raises at the first value whose label is not one label of
\* the mask (0: none)
add_list_items_raises(values, checked_mask) ==
    IF \E i \in 1 .. Len(values) : LocRaises(checked_mask, values[i].lbl)
    THEN CHOOSE i \in 1 .. Len(values) :
            /\ LocRaises(checked_mask, values[i].lbl)
            /\ \A j \in 1 .. (i - 1) : ~LocRaises(checked_mask, values[j].lbl)
    ELSE 0

\* DataFrameSortFilterProxy.add_list_items with FilterWidgetAction.addItem:
\* the widget after the items are added (up to the one that raises)
add_list_items(widget, values, checked_mask) ==
    LET k == add_list_items_raises(values, checked_mask)
        n == IF k = 0 THEN Len(values) ELSE k - 1
        new == [i \in 1 .. n |->
                   [text |-> values[i].val,
                    checked |-> LET at == CHOOSE j \in 1 .. Len(checked_mask) :
                                             checked_mask[j].lbl = values[i].lbl
                                IN  checked_mask[at].val]]
    IN  [widget EXCEPT !.items = @ \o new,
                       !.num_checked = @ + Cardinality({i \in 1 .. n : new[i].checked})]

\* min(FILTER_VALUES_STEP, remaining) with the full step whatever remains
next_step_full(remaining) == FILTER_VALUES_STEP

\* populate_list: next_step = min(FILTER_VALUES_STEP, remaining)
next_step_of(remaining) == Min(FILTER_VALUES_STEP, remaining)

\* DataFrameView.filter_clicked -> make_header_menu: a new filter widget, the
\* column set, and populate_list handed to the thread pool
async_populate_list(col_ndx) ==
    /\ populate_task.pc \in {"idle", "done", "error"}
    /\ column_index' = col_ndx
    /\ filter_widget' = NoWidget
    /\ populate_task' = [NoPopulate EXCEPT !.pc = "start"]
    /\ ret' = Call("async_populate_list", "None", {})
    /\ UNCHANGED <<model_vars, filter_cache, accepted, applied, proxy_rows,
                   display_values, showing_all_display_values, filter_values,
                   display_values_gen, refill_task>>

\* populate_list up to the loop: the list cleared, the model values read, and
\* for a column within the limit all display values taken
populate_list_begin ==
    /\ populate_task.pc = "start"
    /\ IF get_model_values_raises(column_index)
       THEN /\ populate_task' = [populate_task EXCEPT !.pc = "error"]
            /\ UNCHANGED <<display_values, showing_all_display_values, filter_values,
                           display_values_gen>>
       ELSE LET model_values == get_model_values(column_index)
                mask == IF column_index # last_filter_index
                        THEN TrueEntries(filter_mask) ELSE filter_mask
                all == \A i \in 1 .. Len(mask) : mask[i].val
            IN  IF Len(model_values) <= INITIAL_FILTER_LIMIT
                THEN /\ display_values' = TakenSeries(model_values)
                     /\ display_values_gen' = <<>>
                     /\ showing_all_display_values' = TRUE
                     /\ filter_values' =
                            IF NoStr(TakenSeries(model_values)) THEN filter_values
                            ELSE drop_duplicates_lower(TakenSeries(model_values))
                     /\ populate_task' =
                            [populate_task EXCEPT
                                !.pc = IF NoStr(TakenSeries(model_values))
                                       THEN "error" ELSE "finish",
                                !.model_values = model_values,
                                !.mask_all = all]
                ELSE /\ display_values' = <<>>
                     /\ filter_values' = <<>>
                     /\ display_values_gen' = model_values
                     /\ populate_task' = [pc |-> "loop", model_values |-> model_values,
                                          next_step |-> INITIAL_FILTER_LIMIT,
                                          remaining |-> Len(model_values), mask_all |-> all]
                     /\ UNCHANGED showing_all_display_values
    /\ filter_widget' = [filter_widget EXCEPT !.items = <<>>, !.select_all = "none",
                                              !.num_checked = 0]
    /\ ret' = Call("populate_list", "running", {})
    /\ UNCHANGED <<model_vars, filter_cache, accepted, column_index, applied, proxy_rows,
                   refill_task>>

\* populate_list: one test of the while loop, with the batch it loads or the
\* statements after the loop
populate_list_loop ==
    /\ populate_task.pc = "loop"
    /\ IF populate_task.next_step # 0 /\ Len(filter_values) < INITIAL_FILTER_LIMIT
       THEN IF populate_task.next_step > Len(display_values_gen)
            THEN \* next() on the exhausted generator: RuntimeError
                 /\ display_values_gen' = <<>>
                 /\ populate_task' = [populate_task EXCEPT !.pc = "error"]
                 /\ UNCHANGED <<display_values, filter_values, filter_widget,
                                showing_all_display_values>>
            ELSE LET to_display == TakenSeries(SubSeq(display_values_gen, 1,
                                                      populate_task.next_step))
                     remaining == IF populate_task.remaining > populate_task.next_step
                                  THEN populate_task.remaining - populate_task.next_step
                                  ELSE 0
                 IN  /\ display_values' = display_values \o to_display
                     /\ filter_values' = filter_values \o drop_duplicates_lower(to_display)
                     /\ display_values_gen' =
                            SubSeq(display_values_gen, populate_task.next_step + 1,
                                   Len(display_values_gen))
                     /\ populate_task' = [populate_task EXCEPT
                                              !.remaining = remaining,
                                              !.next_step = next_step_of(remaining)]
                     /\ UNCHANGED <<filter_widget, showing_all_display_values>>
       ELSE /\ filter_widget' = [filter_widget EXCEPT
                                    !.show_all_btn = IF populate_task.remaining # 0
                                                     THEN TRUE ELSE @]
            /\ showing_all_display_values' = (populate_task.remaining = 0)
            /\ populate_task' = [populate_task EXCEPT !.pc = "finish"]
            /\ UNCHANGED <<display_values, filter_values, display_values_gen>>
    /\ ret' = Call("populate_list", "running", {})
    /\ UNCHANGED <<model_vars, filter_cache, accepted, column_index, applied, proxy_rows,
                   refill_task>>

\* populate_list: the (Select All) item and the list items
populate_list_finish ==
    /\ populate_task.pc = "finish"
    /\ filter_widget' =
           add_list_items([filter_widget EXCEPT
                               !.select_all = IF populate_task.mask_all
                                              THEN "checked" ELSE "unchecked"],
                          filter_values, accepted)
    /\ populate_task' = [populate_task EXCEPT
                            !.pc = IF add_list_items_raises(filter_values, accepted) = 0
                                   THEN "done" ELSE "error"]
    /\ ret' = Call("populate_list",
                   IF add_list_items_raises(filter_values, accepted) = 0
                   THEN "None" ELSE "raised", {})
    /\ UNCHANGED <<model_vars, filter_cache, accepted, column_index, applied, proxy_rows,
                   display_values, showing_all_display_values, filter_values,
                   display_values_gen, refill_task>>

\* the button 'Not all items showing': refill_list handed to the thread pool
async_refill_list ==
    /\ filter_widget.show_all_btn
    /\ refill_task.pc \in {"idle", "done", "error"}
    /\ refill_task' = [NoRefill EXCEPT !.pc = "start"]
    /\ ret' = Call("async_refill_list", "None", {})
    /\ UNCHANGED <<model_vars, filter_cache, accepted, column_index, applied, proxy_rows,
                   display_values, showing_all_display_values, filter_values,
                   display_values_gen, filter_widget, populate_task>>

\* refill_list: the remaining items are taken from the generator
refill_list_take ==
    /\ refill_task.pc = "start"
    /\ refill_task' = [pc |-> "append", taken |-> TakenSeries(display_values_gen)]
    /\ display_values_gen' = <<>>
    /\ ret' = Call("refill_list", "running", {})
    /\ UNCHANGED <<model_vars, filter_cache, accepted, column_index, applied, proxy_rows,
                   display_values, showing_all_display_values, filter_values,
                   filter_widget, populate_task>>

\* refill_list: self._display_values = self._display_values.append(...)
refill_list_append ==
    /\ refill_task.pc = "append"
    /\ display_values' = display_values \o refill_task.taken
    /\ showing_all_display_values' = TRUE
    /\ refill_task' = [refill_task EXCEPT !.pc = "items"]
    /\ ret' = Call("refill_list", "running", {})
    /\ UNCHANGED <<model_vars, filter_cache, accepted, column_index, applied, proxy_rows,
                   filter_values, display_values_gen, filter_widget, populate_task>>

\* refill_list: the filter values and the list items; its result hides the
\* button
refill_list_items ==
    /\ refill_task.pc = "items"
    /\ IF NoStr(refill_task.taken)
       THEN /\ refill_task' = [refill_task EXCEPT !.pc = "error"]
            /\ ret' = Call("refill_list", "raised", {})
            /\ UNCHANGED <<filter_values, filter_widget>>
       ELSE LET new == drop_duplicates_lower(refill_task.taken)
                failed == add_list_items_raises(new, accepted) # 0
                widget == add_list_items(filter_widget, new, accepted)
            IN  /\ filter_values' = filter_values \o new
                /\ filter_widget' = IF failed THEN widget
                                    ELSE [widget EXCEPT !.show_all_btn = FALSE]
                /\ refill_task' = [refill_task EXCEPT
                                      !.pc = IF failed THEN "error" ELSE "done"]
                /\ ret' = Call("refill_list", IF failed THEN "raised" ELSE "None", {})
    /\ UNCHANGED <<model_vars, filter_cache, accepted, column_index, applied, proxy_rows,
                   display_values, showing_all_display_values, display_values_gen,
                   populate_task>>

\* FilterWidgetAction.on_listitem_changed: the user checks or unchecks a list
\* item; without a (Select All) item select_all_item.checkState() raises
on_listitem_changed(i) ==
    LET checked == ~filter_widget.items[i].checked
        num_checked == filter_widget.num_checked + (IF checked THEN 1 ELSE -1)
    IN  /\ filter_widget' = [filter_widget EXCEPT
                                !.items[i].checked = checked,
                                !.num_checked = num_checked,
                                !.select_all = IF @ = "none" THEN @
                                               ELSE IF num_checked = Len(filter_widget.items)
                                               THEN "checked" ELSE "unchecked"]
        /\ ret' = Call("on_listitem_changed",
                       IF filter_widget.select_all = "none" THEN "raised" ELSE "None", {})
        /\ UNCHANGED <<model_vars, filter_cache, accepted, column_index, applied,
                       proxy_rows, display_values, showing_all_display_values,
                       filter_values, display_values_gen, populate_task, refill_task>>

\* DataFrameSortFilterProxy.remove_filter_mask: the new filter_cache
remove_filter_mask(cache, col_ndx) == cache_pop(cache, col_ndx)

\* DataFrameView.apply_and_close_header_menu -> apply_list_filter, with no
\* text in the line edit
apply_list_filter ==
    LET list_count == Len(filter_widget.items)
                      + (IF filter_widget.select_all = "none" THEN 0 ELSE 1)
        checked == filter_widget.select_all = "checked"
        is_filtered == is_column_filtered(column_index)
        checked_values == {Lower(filter_widget.items[i].text) :
                              i \in {j \in 1 .. Len(filter_widget.items) :
                                         filter_widget.items[j].checked}}
        shown == IF showing_all_display_values THEN display_values
                 ELSE display_values \o TakenSeries(display_values_gen)
        mask == [i \in 1 .. Len(shown) |->
                    [lbl |-> shown[i].lbl, val |-> Lower(shown[i].val) \in checked_values]]
    IN  /\ IF list_count = 0 \/ filter_widget.select_all = "none"
                             \/ (checked /\ ~is_filtered)
           THEN \* returns before invalidateFilter, or select_all_item is None
                /\ ret' = Call("apply_list_filter",
                               IF list_count # 0 /\ filter_widget.select_all = "none"
                               THEN "raised" ELSE "None", {})
                /\ UNCHANGED <<filter_cache, accepted, proxy_rows, display_values,
                               showing_all_display_values, display_values_gen>>
           ELSE IF checked /\ is_filtered
           THEN LET cache == remove_filter_mask(filter_cache, column_index)
                    last == cache[Len(cache)].mask
                IN  /\ filter_cache' = cache
                    /\ accepted' = update_accepted(accepted, last)
                    /\ proxy_rows' = IF update_accepted_raises(accepted, last)
                                     THEN proxy_rows
                                     ELSE ProxyInvalidated(accepted', count)
                    /\ ret' = IF update_accepted_raises(accepted, last)
                              THEN Call("apply_list_filter", "raised", {})
                              ELSE Call("apply_list_filter", "None", {"column_unfiltered"})
                    /\ UNCHANGED <<display_values, showing_all_display_values,
                                   display_values_gen>>
           ELSE /\ display_values' = shown
                /\ showing_all_display_values' = TRUE
                /\ display_values_gen' = IF showing_all_display_values
                                         THEN display_values_gen ELSE <<>>
                /\ IF NoStr(shown)
                   THEN /\ ret' = Call("apply_list_filter", "raised", {})
                        /\ UNCHANGED <<filter_cache, accepted, proxy_rows>>
                   ELSE /\ filter_cache' = add_filter_mask(filter_cache, column_index, mask)
                        /\ accepted' = update_accepted(accepted, mask)
                        /\ proxy_rows' = IF update_accepted_raises(accepted, mask)
                                         THEN proxy_rows
                                         ELSE ProxyInvalidated(accepted', count)
                        /\ ret' = IF update_accepted_raises(accepted, mask)
                                  THEN Call("apply_list_filter", "raised", {})
                                  ELSE Call("apply_list_filter", "None", {"column_filtered"})
        /\ UNCHANGED <<model_vars, column_index, applied, filter_values, filter_widget,
                       populate_task, refill_task>>

\* ---------------------------------------------------------- specification
\* the texts string_filter is called with: no text, or a cell's display value
FilterTexts == {<<>>} \cup {display_data(v) : v \in Vals}

\* the state after DataFrameView.__init__ on the DataFrame with the given
\* cells: a RangeIndex, no row in progress, no filter, all columns editable
InitWith(cells, non_nullable, history) ==
    /\ df = [i \in 1 .. Len(cells) |-> [lbl |-> i - 1, val |-> cells[i]]]
    /\ row_data = make_index_data_for(Range(0, Len(cells)))
    /\ is_mutable = TRUE
    /\ count_virtual = VIRTUAL_COUNT
    /\ col_disabled = [c \in Cols |-> FALSE]
    /\ col_non_nullable = non_nullable
    /\ is_dirty = FALSE
    /\ filter_cache = <<[col |-> DEFAULT_FILTER_INDEX,
                         mask |-> NewSeries(Range(0, Len(cells)), TRUE)]>>
    /\ accepted = NewSeries(Range(0, Len(cells)), TRUE)
    /\ column_index = 0
    /\ ret = Call("init", "None", {})
    /\ null_written = FALSE
    /\ applied = (IF history THEN [c \in 1 .. NumCols |-> <<>>] ELSE <<>>)
    /\ proxy_rows = Range(0, Len(cells) + VIRTUAL_COUNT)
    /\ calls = 0
    /\ display_values = <<>>
    /\ showing_all_display_values = FALSE
    /\ filter_values = <<>>
    /\ display_values_gen = <<>>
    /\ filter_widget = NoWidget
    /\ populate_task = NoPopulate
    /\ refill_task = NoRefill

\* the DataFrames of n rows with cells from values
Frames(n, values) == [1 .. n -> [1 .. NumCols -> values]]

InsertRows ==
    \E row \in 0 .. Len(df), n \in 1 .. MaxCount :
        /\ Len(df) + n <= MaxRows
        /\ insertRows(row, n)

RemoveRows ==
    \E row \in 0 .. (Len(df) - 1), n \in 1 .. MaxCount :
        /\ row + n <= Len(df)
        /\ removeRows(row, n)

\* setData on any valid index of the model, the virtual row included
SetDataIn(values) ==
    \E row \in 0 .. (count - 1), col \in Cols, value \in values :
        /\ Len(df) + (IF is_virtual(row) THEN 1 ELSE 0) <= MaxRows
        /\ setData(row, col, value)

SetMutable == \E enable \in BOOLEAN : EnableMutableRows(enable)

SetVirtual == \E enable \in BOOLEAN : EnableVirtualRow(enable)

SetReadOnly == \E readonly \in BOOLEAN : set_read_only(readonly)

\* the columns are enabled and disabled while the view is set up
SetColumnsEditState ==
    \E col \in Cols, edit_state \in BOOLEAN :
        /\ is_dirty = FALSE
        /\ set_columns_edit_state(col, edit_state)

FilterByValueIn(texts) == \E col \in Cols, text \in texts : filter_by_value(col, text)

ClearColumnFilter == \E col \in Cols : clear_filter_from_column(col)

ClearAllFilters == clear_filter_cache

\* Row editing: rows are inserted, edited and removed
InitRows ==
    \E cells \in Frames(1, {1}), non_nullable \in [Cols -> BOOLEAN] :
        InitWith(cells, non_nullable, FALSE)

SetData == SetDataIn({Null, 1})

NextRows ==
    \/ InsertRows /\ UNCHANGED calls
    \/ RemoveRows /\ UNCHANGED calls
    \/ SetData /\ UNCHANGED calls
    \/ SetColumnsEditState /\ UNCHANGED calls

SpecRows == InitRows /\ [][NextRows]_vars

\* Modes: rows are made mutable and immutable, the virtual row is switched
\* on and off, while rows are inserted, edited and removed
InitMode ==
    \E cells \in Frames(1, {1}), non_nullable \in [Cols -> BOOLEAN] :
        InitWith(cells, non_nullable, FALSE)

SetValue == SetDataIn({1})

NextMode ==
    \/ InsertRows /\ UNCHANGED calls
    \/ RemoveRows /\ UNCHANGED calls
    \/ SetValue /\ UNCHANGED calls
    \/ SetMutable /\ UNCHANGED calls
    \/ SetVirtual /\ UNCHANGED calls
    \/ SetReadOnly /\ UNCHANGED calls

SpecMode == InitMode /\ [][NextMode]_vars

\* Filters: columns are filtered and unfiltered on a table that is not edited
InitCompose ==
    \E cells \in Frames(2, Vals), non_nullable \in {[c \in Cols |-> FALSE]} :
        InitWith(cells, non_nullable, TRUE)

FilterByValue == FilterByValueIn(FilterTexts)

NextCompose ==
    \/ FilterByValue /\ UNCHANGED calls
    \/ ClearColumnFilter /\ UNCHANGED calls
    \/ ClearAllFilters /\ UNCHANGED calls

SpecCompose == InitCompose /\ [][NextCompose]_vars

\* Filters and row edits: rows are inserted and removed while columns are
\* filtered and unfiltered
InitFilter ==
    \E cells \in {<< <<2, 1>>, <<1, 2>> >>},
       non_nullable \in {[c \in Cols |-> FALSE], [c \in Cols |-> c = 1]} :
        InitWith(cells, non_nullable, FALSE)

FilterByText == FilterByValueIn({display_data(1), display_data(2)})

\* the calls of a bounded run
MaxCalls == 5

Called == calls < MaxCalls /\ calls' = calls + 1

\* the user selects rows of the view and removes them
RemoveSelected ==
    \E selection \in SUBSET (0 .. (Len(proxy_rows) - 1)) :
        /\ selection # {}
        /\ remove_rows(selection)

NextFilter ==
    \/ InsertRows /\ Called
    \/ RemoveRows /\ Called
    \/ FilterByText /\ Called
    \/ ClearColumnFilter /\ Called
    \/ ClearAllFilters /\ Called

SpecFilter == InitFilter /\ [][NextFilter]_vars

\* the header popup of a column is opened
OpenPopup == \E col_ndx \in Cols : async_populate_list(col_ndx)

\* the user changes the check box of a list item
ToggleItem == \E i \in 1 .. Len(filter_widget.items) : on_listitem_changed(i)

\* no worker is between two of its steps
Quiet ==
    /\ populate_task.pc \in {"idle", "done", "error"}
    /\ refill_task.pc \in {"idle", "done", "error"}

\* columns of up to MaxRows values, on both sides of INITIAL_FILTER_LIMIT
InitList ==
    \E n \in 1 .. MaxRows : \E cells \in Frames(n, {1, 2}) :
        /\ \A i \in 1 .. n : cells[i][2] = 1
        /\ InitWith(cells, [c \in Cols |-> FALSE], FALSE)

\* the workers run one at a time, each to its end before the next call
NextList ==
    \/ Quiet /\ OpenPopup /\ Called
    \/ populate_list_begin /\ UNCHANGED calls
    \/ populate_list_loop /\ UNCHANGED calls
    \/ populate_list_finish /\ UNCHANGED calls
    \/ Quiet /\ ToggleItem /\ Called
    \/ Quiet /\ async_refill_list /\ Called
    \/ refill_list_take /\ UNCHANGED calls
    \/ refill_list_append /\ UNCHANGED calls
    \/ refill_list_items /\ UNCHANGED calls
    \/ Quiet /\ apply_list_filter /\ Called

SpecList == InitList /\ [][NextList]_vars

\* the thread pool runs the workers beside the UI thread: every interleaving
\* of their steps and the user's calls
NextAsync ==
    \/ OpenPopup /\ Called
    \/ populate_list_begin /\ UNCHANGED calls
    \/ populate_list_loop /\ UNCHANGED calls
    \/ populate_list_finish /\ UNCHANGED calls
    \/ ToggleItem /\ Called
    \/ async_refill_list /\ Called
    \/ refill_list_take /\ UNCHANGED calls
    \/ refill_list_append /\ UNCHANGED calls
    \/ refill_list_items /\ UNCHANGED calls
    \/ apply_list_filter /\ Called

SpecAsync == InitList /\ [][NextAsync]_vars

\* ------------------------------------------------------------ properties
\* the position of a data row lies in the result DataFrame model.df
InResult(i) == df[i].lbl \in LabelSet(model_df)

\* a non-nullable column of the row holds a null, or a disabled column of
\* it has no value yet
Unfilled(i) ==
    \E c \in Cols : (col_non_nullable[c] \/ col_disabled[c]) /\ df[i].val[c + 1] = Null

\* C4: the result DataFrame holds exactly the rows whose non-nullable and
\* disabled cells have all been filled (as long as setData wrote values only,
\* no nulls: a cell that is null has then never been given a value)
C4_ResultWithoutRowsInProgress ==
    ~null_written =>
        \A i \in 1 .. Len(df) : InResult(i) <=> ~Unfilled(i)

\* C5: an insertRows call that inserts puts every inserted row in progress
\* exactly when some column is disabled or non-nullable, and every row that
\* was there before keeps its in-progress status at its shifted position
C5_InsertedRowsInProgress ==
    [][\A row \in 0 .. MaxRows, n \in 1 .. MaxCount :
          (/\ ret'.op = "insertRows" /\ ret'.result = "True"
           /\ Len(df') = Len(df) + n
           /\ row <= Len(df)
           /\ insertRows(row, n)) =>
             /\ Len(row_data') = Len(row_data) + n
             /\ \A p \in row .. (row + n - 1) :
                   in_progress_at(row_data', p)
                     <=> (MaskSum(col_disabled) + MaskSum(col_non_nullable) > 0)
             /\ \A p \in 0 .. (Len(row_data) - 1) :
                   in_progress_at(row_data', IF p < row THEN p ELSE p + n)
                     <=> in_progress_at(row_data, p)]_vars

\* C5 witness: insertRows has inserted rows in progress (a column is disabled)
\* beside a committed row and a row already in progress that was edited since
C5_Witness ==
    /\ ret.op = "insertRows" /\ ret.result = "True"
    /\ MaskSum(col_disabled) > 0
    /\ \E i, j, k \in 1 .. Len(row_data) :
          /\ ~row_data[i].val.in_progress
          /\ row_data[j].val.in_progress
          /\ row_data[j].val.disabled_in_progress_count
               + row_data[j].val.non_nullable_in_progress_count = 1
          /\ row_data[k].val.in_progress
          /\ row_data[k].val.disabled_in_progress_count
               + row_data[k].val.non_nullable_in_progress_count = 2

\* C6: count_committed is the number of data rows that are not in progress
C6_CountCommitted == count_committed = Len(model_df)

\* C9: set_read_only(True) leaves the rows immutable and no virtual row,
\* set_read_only(False) leaves the rows mutable and the virtual row offered
C9_ReadOnly ==
    [][\A readonly \in BOOLEAN :
          (ret'.op = "set_read_only" /\ set_read_only(readonly)) =>
             /\ is_mutable' = ~readonly
             /\ count_virtual' = (IF readonly THEN 0 ELSE VIRTUAL_COUNT)]_vars

\* C10: insertRows and removeRows called on an immutable row index return
\* False, emit nothing and leave the data, the row index, the proxy's masks
\* and is_dirty as they were
C10_ImmutableRefused ==
    [][(ret'.op \in {"insertRows", "removeRows"} /\ ~is_mutable) =>
          /\ ret'.result = "False"
          /\ ret'.emitted = {}
          /\ UNCHANGED <<df, row_data, is_mutable, count_virtual, is_dirty,
                         filter_cache, accepted>>]_vars

\* C10 witness: insertRows was refused on an edited table with a row in
\* progress
C10_Witness ==
    /\ ret.op = "insertRows" /\ ret.result = "False"
    /\ ~is_mutable
    /\ is_dirty
    /\ count_in_progress > 0

\* The view: rows are selected and removed while rows are inserted and
\* filled, a column is filtered and the virtual row is switched on and off
InitView ==
    \E cells \in {<< <<1, 1>>, <<1, 2>> >>},
       non_nullable \in {[c \in Cols |-> FALSE], [c \in Cols |-> c = 1]} :
        InitWith(cells, non_nullable, FALSE)

NextView ==
    \/ RemoveSelected /\ Called
    \/ InsertRows /\ Called
    \/ SetValue /\ Called
    \/ SetVirtual /\ Called
    \/ FilterByText /\ Called
    \/ ClearAllFilters /\ Called

SpecView == InitView /\ [][NextView]_vars

\* the cached masks followed by `accepted`
Masks(cache, acc) ==
    [i \in 1 .. (Len(cache) + 1) |-> IF i <= Len(cache) THEN cache[i].mask ELSE acc]

\* C1: every mask of filter_cache, and `accepted`, has exactly one entry for
\* each data row of the model: its labels are 0 .. n-1, none missing and none
\* twice
C1_MasksCoverRows ==
    \A i \in 1 .. (Len(filter_cache) + 1) :
        LET mask == Masks(filter_cache, accepted)[i]
        IN  /\ Len(mask) = Len(df)
            /\ LabelSet(mask) = 0 .. (Len(df) - 1)

\* the filter of the given text accepts the data row
TextAccepts(text, row, col_ndx) ==
    \/ Len(text) = 0
    \/ Contains(Lower(display_data(df[row + 1].val[col_ndx + 1])), Lower(text))

\* C2: a data row is accepted by the proxy exactly when, for every column
\* present in filter_cache, the filter most recently applied to that column
\* accepts the row
C2_FiltersCompose ==
    \A row \in 0 .. (Len(df) - 1) :
        filterAcceptsRow(accepted, row)
            <=> \A i \in 1 .. Len(filter_cache) :
                    \/ filter_cache[i].col = DEFAULT_FILTER_INDEX
                    \/ TextAccepts(applied[filter_cache[i].col + 1], row,
                                   filter_cache[i].col)

\* the acceptance values a mask holds for a row
RowValues(mask, row) ==
    {mask[i].val : i \in {j \in 1 .. Len(mask) : mask[j].lbl = row}}

InsertPreserves(old, new, row, n) ==
    /\ \A r \in row .. (row + n - 1) : RowValues(new, r) = {TRUE}
    /\ \A r \in 0 .. (Len(df) - 1) :
           RowValues(new, IF r < row THEN r ELSE r + n) = RowValues(old, r)

RemovePreserves(old, new, row, n) ==
    \A r \in 0 .. (Len(df) - 1) :
        (r < row \/ r >= row + n)
            => RowValues(new, IF r < row THEN r ELSE r - n) = RowValues(old, r)

\* C3: when rows are inserted into or removed from the model while filters are
\* active, every inserted row is accepted and every other surviving row keeps
\* its acceptance value, in `accepted` and in each cached mask
C3_RowEditsPreserveAcceptance ==
    [][\A row \in 0 .. MaxRows, n \in 1 .. MaxCount :
          /\ ( /\ is_data_filtered
               /\ ret'.op = "insertRows"
               /\ ret'.result = "True"
               /\ Len(df') = Len(df) + n
               /\ row <= Len(df)
               /\ insertRows(row, n) )
             => /\ Len(filter_cache') = Len(filter_cache)
                /\ \A i \in 1 .. (Len(filter_cache) + 1) :
                       InsertPreserves(Masks(filter_cache, accepted)[i],
                                       Masks(filter_cache', accepted')[i], row, n)
          /\ ( /\ is_data_filtered
               /\ ret'.op = "removeRows"
               /\ ret'.result = "True"
               /\ Len(df') = Len(df) - n
               /\ row + n <= Len(df)
               /\ removeRows(row, n) )
             => /\ Len(filter_cache') = Len(filter_cache)
                /\ \A i \in 1 .. (Len(filter_cache) + 1) :
                       RemovePreserves(Masks(filter_cache, accepted)[i],
                                       Masks(filter_cache', accepted')[i], row, n)
      ]_vars

\* the data rows of the model behind the selected rows of the view
SelectedDataRows(selection) ==
    {proxy_rows[p + 1] : p \in selection} \cap (0 .. (Len(df) - 1))

\* the selection holds every committed data row
LeavesNoCommittedRow(selection) ==
    \A row \in 0 .. (Len(df) - 1) :
        in_progress_at(row_data, row) \/ row \in SelectedDataRows(selection)

\* the selections of rows of the view
Selections == SUBSET (0 .. MaxRows) \ {{}}

\* C7: after DataFrameView.remove_rows at least one committed data row
\* remains, and a call whose selection would leave no committed row removes
\* nothing and reports an error (the message box, or an exception)
C7_OneCommittedRowRemains ==
    [][/\ ret'.op = "remove_rows" => Len(model_df') >= 1
       /\ \A selection \in Selections :
              ( /\ ret'.op = "remove_rows"
                /\ selection \subseteq 0 .. (Len(proxy_rows) - 1)
                /\ is_mutable
                /\ LeavesNoCommittedRow(selection)
                /\ remove_rows(selection) )
              => /\ df' = df
                 /\ ret'.result \in {"error", "raised"}
      ]_vars

\* the frame without the rows at the given positions
DropRows(frame, rows) ==
    LET kept == Sorted({r \in 0 .. (Len(frame) - 1) : r \notin rows})
    IN  [i \in 1 .. Len(kept) |-> [lbl |-> i - 1, val |-> frame[kept[i] + 1].val]]

\* C8: when the selection holds data rows together with the virtual row,
\* exactly the selected data rows are removed unless no committed row would
\* remain, no error is raised and the virtual row stays
C8_VirtualRowFilteredOut ==
    [][\A selection \in Selections :
          ( /\ ret'.op = "remove_rows"
            /\ selection \subseteq 0 .. (Len(proxy_rows) - 1)
            /\ is_mutable
            /\ count_virtual = VIRTUAL_COUNT
            /\ \E p \in selection : proxy_rows[p + 1] >= Len(df)
            /\ SelectedDataRows(selection) # {}
            /\ remove_rows(selection) )
          => /\ ret'.result \in {"None", "error"}
             /\ count_virtual' = VIRTUAL_COUNT
             /\ df' = IF LeavesNoCommittedRow(selection)
                      THEN df
                      ELSE DropRows(df, SelectedDataRows(selection))
      ]_vars

\* C11: enable_virtual_row(enable) called while the virtual row is already in
\* the requested state neither resets the model nor emits
\* virtual_rows_enabled, as enable_mutable_rows emits nothing when the
\* mutability already equals its argument
C11_EnableIsNoOp ==
    [][\A enable \in BOOLEAN :
          /\ ( /\ ret'.op = "enable_virtual_row"
               /\ (count_virtual = VIRTUAL_COUNT) = enable
               /\ EnableVirtualRow(enable) )
             => /\ ret'.emitted = {}
                /\ count_virtual' = count_virtual
          /\ ( /\ ret'.op = "enable_mutable_rows"
               /\ is_mutable = enable
               /\ EnableMutableRows(enable) )
             => /\ ret'.emitted = {}
                /\ is_mutable' = is_mutable
      ]_vars

Sort == \E column \in Cols, ascending \in BOOLEAN : sort(column, ascending)

InitSort ==
    \E cells \in {<< <<2, 1>>, <<1, 2>> >>},
       non_nullable \in {[c \in Cols |-> FALSE], [c \in Cols |-> c = 1]} :
        InitWith(cells, non_nullable, FALSE)

NextSort ==
    \/ Sort /\ Called
    \/ FilterByText /\ Called
    \/ InsertRows /\ Called
    \/ SetValue /\ Called

SpecSort == InitSort /\ [][NextSort]_vars

\* a data row with its filter acceptance and its in-progress status
RowStatus(frame, acc, data, row) ==
    [val |-> frame[row + 1].val,
     accepted |-> filterAcceptsRow(acc, row),
     in_progress |-> in_progress_at(data, row)]

\* C14: sorting only reorders the data rows: after sort(column, order) each
\* data row has the filter acceptance and the in-progress status it had
\* before, so the rows are the same with the same status, up to order
C14_SortOnlyReorders ==
    [][ret'.op = "sort"
       => /\ Len(df') = Len(df)
          /\ \A row \in 0 .. (Len(df) - 1) :
                 Cardinality({r \in 0 .. (Len(df) - 1) :
                     RowStatus(df', accepted', row_data', r)
                         = RowStatus(df, accepted, row_data, row)})
                 = Cardinality({r \in 0 .. (Len(df) - 1) :
                     RowStatus(df, accepted, row_data, r)
                         = RowStatus(df, accepted, row_data, row)})
      ]_vars

\* the thread pool runs populate_list, once in its loop, until it returns
SpecListFair ==
    /\ SpecList
    /\ WF_vars(populate_list_loop /\ UNCHANGED calls)
    /\ WF_vars(populate_list_finish /\ UNCHANGED calls)

\* populate_list is about to test the condition of its while loop
AtLoop == populate_task.pc = "loop"

\* C17: the batching loop of populate_list terminates for every column size:
\* an iteration loads a batch no larger than what remains and never reads
\* past the end of the generator, the remaining count strictly decreases,
\* the loop is left exactly when the list holds INITIAL_FILTER_LIMIT values
\* or nothing remains, and a populate_list in its loop reaches its end
C17_BatchingLoopTerminates ==
    /\ [][AtLoop =>
            /\ populate_task'.pc \in {"loop", "finish"}
            /\ populate_task'.pc = "finish"
                   <=> (Len(filter_values) >= INITIAL_FILTER_LIMIT
                        \/ populate_task.remaining = 0)
            /\ populate_task'.pc = "loop" =>
                   /\ populate_task.next_step <= populate_task.remaining
                   /\ populate_task.next_step <= Len(display_values_gen)
                   /\ Len(display_values') = Len(display_values) + populate_task.next_step
                   /\ populate_task'.remaining < populate_task.remaining
                   /\ populate_task'.remaining = Len(display_values_gen')
         ]_vars
    /\ (AtLoop ~> populate_task.pc \in {"done", "error"})

\* populate_list has left its loop after more than one batch, with nothing
\* remaining
C17_Witness ==
    /\ populate_task.pc = "done"
    /\ Len(display_values) > INITIAL_FILTER_LIMIT
    /\ populate_task.remaining = 0
    /\ Len(display_values) = Len(populate_task.model_values)
    /\ showing_all_display_values

\* the texts of the list items, without the (Select All) item
ItemTexts == [i \in 1 .. Len(filter_widget.items) |-> Lower(filter_widget.items[i].text)]

\* C16: the candidate-value list shows each distinct display value at most
\* once, compared case-insensitively
C16_ListValuesDistinct ==
    \A i, j \in 1 .. Len(ItemTexts) : ItemTexts[i] = ItemTexts[j] => i = j

\* the list filter has put a mask on the column in this step
ListFilterApplied ==
    /\ ret'.op = "apply_list_filter"
    /\ calls' # calls
    /\ is_column_filtered(column_index)'
    /\ filter_cache' # filter_cache

\* C15: under every interleaving of populate_list, refill_list and
\* apply_list_filter, when a list filter is applied _display_values holds
\* exactly one entry per candidate row of the column
C15_OneEntryPerCandidate ==
    [][ListFilterApplied =>
          /\ Len(display_values') = Len(populate_task.model_values)
          /\ LabelSet(display_values') = LabelSet(populate_task.model_values)
      ]_vars

====
